---- MODULE Spec2Model ----
(***************************************************************************)
(* Model of project_3/llm_with_tools.py: a script that sends one chat      *)
(* completion request advertising the tool get_current_weather and prints  *)
(* what the model answered, and of the tool function get_current_weather.  *)
(*                                                                         *)
(* Spec        : the script, one action per statement (lines 72-101); the  *)
(*               remote service's answer is chosen nondeterministically.   *)
(* SpecWeather : the pure function get_current_weather applied to inputs   *)
(*               drawn from bounded sets.                                  *)
(***************************************************************************)
EXTENDS Integers, Sequences, FiniteSets, TLC

VARIABLES
    pc,               \* the statement the script executes next
    response,         \* the global `response` (line 72)
    message,          \* the global `message` (line 87)
    idx,              \* position of the for loop's iterator (line 96)
    tool_call,        \* the loop variable `tool_call` (line 96)
    function_name,    \* the global `function_name` (line 97)
    function_args,    \* the global `function_args` (line 98)
    available_tools,  \* the global `available_tools` (line 44)
    sent,             \* the requests handed to client.chat.completions.create
    outcome,          \* how the call of line 72 ended: "none", "returned", "raised"
    out,              \* the lines written to standard output, in order
    calls,            \* the callables the script has invoked, in order
    city, unit,       \* arguments of a call of get_current_weather
    result            \* the value that call returned

vars == <<pc, response, message, idx, tool_call, function_name, function_args,
          available_tools, sent, outcome, out, calls, city, unit, result>>

scriptVars == <<pc, response, message, idx, tool_call, function_name,
                function_args, available_tools, sent, outcome, out, calls>>

weatherVars == <<city, unit, result>>

(***************************************************************************)
(* Bounds of the model.                                                    *)
(***************************************************************************)
MaxCalls == 2       \* longest tool-call list the service returns
MaxCityLen == 2     \* longest city drawn from CityAlphabet

(***************************************************************************)
(* Python values.  Every value is a record tagged with its kind, so that   *)
(* None, strings, integers, lists and objects can be told apart.           *)
(***************************************************************************)
None == [kind |-> "None"]
Str(s) == [kind |-> "str", s |-> s]
Num(n) == [kind |-> "int", n |-> n]
List(q) == [kind |-> "list", items |-> q]
Obj(a) == [kind |-> "object", attrs |-> a]

\* The name bound by a statement that has not run yet.
Unbound == [kind |-> "unbound"]

\* obj.name succeeds iff obj is an object that has the attribute; on None or
\* on an object without it Python raises AttributeError.
HasAttr(v, name) == v.kind = "object" /\ name \in DOMAIN v.attrs
GetAttr(v, name) == v.attrs[name]

\* seq[0] succeeds iff seq is a non-empty list (IndexError / TypeError otherwise).
HasFirst(v) == v.kind = "list" /\ Len(v.items) > 0
First(v) == v.items[1]

\* A truth value that takes every list, also the empty one, for true.
TruthyEmptyList(v) ==
    CASE v.kind = "None" -> FALSE
      [] v.kind = "list" -> TRUE
      [] v.kind = "str"  -> v.s # ""
      [] v.kind = "int"  -> v.n # 0
      [] OTHER           -> TRUE

\* Python truth value, as used by `if message.tool_calls:` (line 94).
Truthy(v) ==
    CASE v.kind = "None" -> FALSE
      [] v.kind = "list" -> Len(v.items) > 0
      [] v.kind = "str"  -> v.s # ""
      [] v.kind = "int"  -> v.n # 0
      [] OTHER           -> TRUE

\* The text an f-string field {v} produces: a str is inserted as it is, None
\* as the word None, an integer in decimal; a list or an object by its repr,
\* which the model keeps symbolic.
Format(v) ==
    CASE v.kind = "str"  -> [text |-> v.s]
      [] v.kind = "None" -> [text |-> "None"]
      [] v.kind = "int"  -> [text |-> ToString(v.n)]
      [] OTHER           -> [repr |-> v]

\* One line written by print/pprint: the literal part of the line and the
\* formatted fields inserted into it.
Line(label, fields) == [label |-> label, fields |-> fields]

(***************************************************************************)
(* The program's constants (lines 27-68).                                  *)
(***************************************************************************)
SYSTEM_PROMPT == "You are a helpful weather assistant. ..."
USER_QUESTION == "What's the weather like in San Francisco today?"

available_tools_value ==
    << [type |-> "function",
        function |->
          [name |-> "get_current_weather",
           description |-> "Returns a short human-readable sentence describing the current weather for a given city.",
           parameters |->
             [type |-> "object",
              properties |->
                [city |-> [type |-> "string",
                           description |-> "Name of the city to get weather for"],
                 unit |-> [type |-> "string",
                           enum |-> <<"celsius", "fahrenheit">>,
                           default |-> "celsius",
                           description |-> "Temperature unit"]],
              required |-> <<"city">>]]] >>

\* The request without the tools (sent as in the script's header note,
\* under another keyword).
RequestArgs_without_tools ==
    [model |-> "llama3.2:latest",
     messages |-> << [role |-> "system", content |-> SYSTEM_PROMPT],
                     [role |-> "user", content |-> USER_QUESTION] >>,
     tools |-> <<>>,
     tool_choice |-> "auto"]

\* The keyword arguments of client.chat.completions.create (lines 72-81).
RequestArgs ==
    [model |-> "llama3.2:latest",
     messages |-> << [role |-> "system", content |-> SYSTEM_PROMPT],
                     [role |-> "user", content |-> USER_QUESTION] >>,
     tools |-> available_tools,
     tool_choice |-> "auto"]

(***************************************************************************)
(* What the remote service can answer.  The script reads the answer by     *)
(* attribute access only, so an answer is any object; the sets below hold  *)
(* the well-formed shapes and the malformed ones the script can meet.      *)
(***************************************************************************)
ToolNames == {"get_current_weather", "get_time"}
ToolArguments == {"{\"city\":\"San Francisco\",\"unit\":\"celsius\"}", "{\"city\":"}

FunctionObjects ==
    {Obj([name |-> Str(n), arguments |-> Str(a)]) : n \in ToolNames, a \in ToolArguments}

\* A tool-call entry; the last two are malformed (no function).
ToolCallEntries ==
    {Obj([id |-> Str("call_0"), type |-> Str("function"), function |-> f]) :
        f \in FunctionObjects \cup {None}}
    \cup {Obj([id |-> Str("call_0"), type |-> Str("function")])}

SeqsUpTo(S, n) == UNION {[1..k -> S] : k \in 0..n}

ToolCallLists == {List(q) : q \in SeqsUpTo(ToolCallEntries, MaxCalls)}

Contents == {None, Str(""), Str("It is sunny in San Francisco.")}

\* A message; the last kind is malformed (no tool_calls attribute).
Messages ==
    {Obj([role |-> Str("assistant"), content |-> c, tool_calls |-> t]) :
        c \in Contents, t \in ToolCallLists \cup {None}}
    \cup {Obj([role |-> Str("assistant"), content |-> c]) : c \in Contents}

Usages ==
    {Obj([prompt_tokens |-> Num(p), completion_tokens |-> Num(c), total_tokens |-> Num(t)]) :
        p \in {0, 180}, c \in {21}, t \in {201}}

ChoiceLists ==
    {List(<<>>)} \cup {List(<<Obj([index |-> Num(0), message |-> m])>>) : m \in Messages \cup {None}}

Responses ==
    {Obj([choices |-> ch, usage |-> u]) : ch \in ChoiceLists \cup {None}, u \in Usages \cup {None}}

(***************************************************************************)
(* The script, statement by statement.                                     *)
(***************************************************************************)
print(line) == /\ out' = Append(out, line)
               /\ calls' = Append(calls, "print")

Fault == pc' = "fault"

\* Lines 72-81, the call: the request leaves and the script blocks.
Request ==
    /\ pc = "l72"
    /\ sent' = Append(sent, RequestArgs)
    /\ calls' = Append(calls, "client.chat.completions.create")
    /\ pc' = "waiting"
    /\ UNCHANGED <<response, message, idx, tool_call, function_name, function_args,
                   available_tools, outcome, out, weatherVars>>

\* Lines 72-81, the call returns a value, which is bound to `response`.
CreateReturns ==
    /\ pc = "waiting"
    /\ \E r \in Responses : response' = r
    /\ outcome' = "returned"
    /\ pc' = "l83"
    /\ UNCHANGED <<message, idx, tool_call, function_name, function_args,
                   available_tools, sent, out, calls, weatherVars>>

\* The call raises and the script tries again.
CreateRaises_retries ==
    /\ pc = "waiting"
    /\ outcome' = "raised"
    /\ pc' = "l72"
    /\ UNCHANGED <<response, message, idx, tool_call, function_name, function_args,
                   available_tools, sent, out, calls, weatherVars>>

\* The call raises, the exception is swallowed and the inspection starts.
CreateRaises_swallowed ==
    /\ pc = "waiting"
    /\ outcome' = "raised"
    /\ pc' = "l83"
    /\ UNCHANGED <<response, message, idx, tool_call, function_name, function_args,
                   available_tools, sent, out, calls, weatherVars>>

\* Lines 72-81, the call raises (connection failure, error status): no
\* try/except encloses it, so the script ends with the traceback.
CreateRaises ==
    /\ pc = "waiting"
    /\ outcome' = "raised"
    /\ Fault
    /\ UNCHANGED <<response, message, idx, tool_call, function_name, function_args,
                   available_tools, sent, out, calls, weatherVars>>

\* Line 83: print("=== Initial Response ===")
Line83 ==
    /\ pc = "l83"
    /\ print(Line("=== Initial Response ===", <<>>))
    /\ pc' = "l84"
    /\ UNCHANGED <<response, message, idx, tool_call, function_name, function_args,
                   available_tools, sent, outcome, weatherVars>>

\* Line 84: pprint(response)
Line84 ==
    /\ pc = "l84"
    /\ out' = Append(out, Line("pprint", <<Format(response)>>))
    /\ calls' = Append(calls, "pprint")
    /\ pc' = "l87"
    /\ UNCHANGED <<response, message, idx, tool_call, function_name, function_args,
                   available_tools, sent, outcome, weatherVars>>

\* Line 87: message = response.choices[0].message
Line87 ==
    /\ pc = "l87"
    /\ IF /\ HasAttr(response, "choices")
          /\ HasFirst(GetAttr(response, "choices"))
          /\ HasAttr(First(GetAttr(response, "choices")), "message")
       THEN /\ message' = GetAttr(First(GetAttr(response, "choices")), "message")
            /\ pc' = "l88"
       ELSE /\ Fault
            /\ UNCHANGED message
    /\ UNCHANGED <<response, idx, tool_call, function_name, function_args,
                   available_tools, sent, outcome, out, calls, weatherVars>>

\* Line 88: print(f"\n=== Message Content ===")
Line88 ==
    /\ pc = "l88"
    /\ print(Line("\n=== Message Content ===", <<>>))
    /\ pc' = "l89"
    /\ UNCHANGED <<response, message, idx, tool_call, function_name, function_args,
                   available_tools, sent, outcome, weatherVars>>

\* Line 89: print(f"Content: {message.content}")
Line89 ==
    /\ pc = "l89"
    /\ IF HasAttr(message, "content")
       THEN /\ print(Line("Content: ", <<Format(GetAttr(message, "content"))>>))
            /\ pc' = "l90"
       ELSE /\ Fault
            /\ UNCHANGED <<out, calls>>
    /\ UNCHANGED <<response, message, idx, tool_call, function_name, function_args,
                   available_tools, sent, outcome, weatherVars>>

\* Line 90: print(f"Tool calls: {message.tool_calls}")
Line90 ==
    /\ pc = "l90"
    /\ IF HasAttr(message, "tool_calls")
       THEN /\ print(Line("Tool calls: ", <<Format(GetAttr(message, "tool_calls"))>>))
            /\ pc' = "l91"
       ELSE /\ Fault
            /\ UNCHANGED <<out, calls>>
    /\ UNCHANGED <<response, message, idx, tool_call, function_name, function_args,
                   available_tools, sent, outcome, weatherVars>>

\* Line 91 guarded: a missing usage object is skipped instead of faulting.
Line91_tolerates_missing_usage ==
    /\ pc = "l91"
    /\ IF /\ HasAttr(response, "usage")
          /\ HasAttr(GetAttr(response, "usage"), "prompt_tokens")
          /\ HasAttr(GetAttr(response, "usage"), "completion_tokens")
          /\ HasAttr(GetAttr(response, "usage"), "total_tokens")
       THEN print(Line("Prompt Tokens: , Completion Tokens: , Total Tokens: ",
                       << Format(GetAttr(GetAttr(response, "usage"), "prompt_tokens")),
                          Format(GetAttr(GetAttr(response, "usage"), "completion_tokens")),
                          Format(GetAttr(GetAttr(response, "usage"), "total_tokens")) >>))
       ELSE UNCHANGED <<out, calls>>
    /\ pc' = "l94"
    /\ UNCHANGED <<response, message, idx, tool_call, function_name, function_args,
                   available_tools, sent, outcome, weatherVars>>

\* Line 91: print(f"Prompt Tokens: {response.usage.prompt_tokens}, Completion
\* Tokens: {response.usage.completion_tokens}, Total Tokens: {response.usage.total_tokens}")
\* The f-string is evaluated in full before print is called.
Line91 ==
    /\ pc = "l91"
    /\ IF /\ HasAttr(response, "usage")
          /\ HasAttr(GetAttr(response, "usage"), "prompt_tokens")
          /\ HasAttr(GetAttr(response, "usage"), "completion_tokens")
          /\ HasAttr(GetAttr(response, "usage"), "total_tokens")
       THEN /\ print(Line("Prompt Tokens: , Completion Tokens: , Total Tokens: ",
                          << Format(GetAttr(GetAttr(response, "usage"), "prompt_tokens")),
                             Format(GetAttr(GetAttr(response, "usage"), "completion_tokens")),
                             Format(GetAttr(GetAttr(response, "usage"), "total_tokens")) >>))
            /\ pc' = "l94"
       ELSE /\ Fault
            /\ UNCHANGED <<out, calls>>
    /\ UNCHANGED <<response, message, idx, tool_call, function_name, function_args,
                   available_tools, sent, outcome, weatherVars>>

\* Line 94: if message.tool_calls:   (the attribute was read at line 90)
Line94 ==
    /\ pc = "l94"
    /\ pc' = IF Truthy(GetAttr(message, "tool_calls")) THEN "l95" ELSE "done"
    /\ UNCHANGED <<response, message, idx, tool_call, function_name, function_args,
                   available_tools, sent, outcome, out, calls, weatherVars>>

\* Line 95: print("\n=== Executing Tool Call ===")
Line95 ==
    /\ pc = "l95"
    /\ print(Line("\n=== Executing Tool Call ===", <<>>))
    /\ pc' = "l96"
    /\ UNCHANGED <<response, message, idx, tool_call, function_name, function_args,
                   available_tools, sent, outcome, weatherVars>>

\* Line 96 with the iteration ending one entry early.
Line96_skips_last ==
    /\ pc = "l96"
    /\ IF idx + 1 < Len(GetAttr(message, "tool_calls").items)
       THEN /\ tool_call' = GetAttr(message, "tool_calls").items[idx + 1]
            /\ idx' = idx + 1
            /\ pc' = "l97"
       ELSE /\ pc' = "done"
            /\ UNCHANGED <<tool_call, idx>>
    /\ UNCHANGED <<response, message, function_name, function_args,
                   available_tools, sent, outcome, out, calls, weatherVars>>

\* Line 96: for tool_call in message.tool_calls:   the iterator yields the
\* next entry, or is exhausted and the script ends.
Line96 ==
    /\ pc = "l96"
    /\ IF idx < Len(GetAttr(message, "tool_calls").items)
       THEN /\ tool_call' = GetAttr(message, "tool_calls").items[idx + 1]
            /\ idx' = idx + 1
            /\ pc' = "l97"
       ELSE /\ pc' = "done"
            /\ UNCHANGED <<tool_call, idx>>
    /\ UNCHANGED <<response, message, function_name, function_args,
                   available_tools, sent, outcome, out, calls, weatherVars>>

\* Line 97: function_name = tool_call.function.name
Line97 ==
    /\ pc = "l97"
    /\ IF /\ HasAttr(tool_call, "function")
          /\ HasAttr(GetAttr(tool_call, "function"), "name")
       THEN /\ function_name' = GetAttr(GetAttr(tool_call, "function"), "name")
            /\ pc' = "l98"
       ELSE /\ Fault
            /\ UNCHANGED function_name
    /\ UNCHANGED <<response, message, idx, tool_call, function_args,
                   available_tools, sent, outcome, out, calls, weatherVars>>

\* Line 98: function_args = tool_call.function.arguments
Line98 ==
    /\ pc = "l98"
    /\ IF /\ HasAttr(tool_call, "function")
          /\ HasAttr(GetAttr(tool_call, "function"), "arguments")
       THEN /\ function_args' = GetAttr(GetAttr(tool_call, "function"), "arguments")
            /\ pc' = "l100"
       ELSE /\ Fault
            /\ UNCHANGED function_args
    /\ UNCHANGED <<response, message, idx, tool_call, function_name,
                   available_tools, sent, outcome, out, calls, weatherVars>>

\* Line 100: print(f"Function: {function_name}")
Line100 ==
    /\ pc = "l100"
    /\ print(Line("Function: ", <<Format(function_name)>>))
    /\ pc' = "l101"
    /\ UNCHANGED <<response, message, idx, tool_call, function_name, function_args,
                   available_tools, sent, outcome, weatherVars>>

\* Line 101 followed by the execution of the requested tool.
Line101_executes_tool ==
    /\ pc = "l101"
    /\ out' = Append(out, Line("Arguments: ", <<Format(function_args)>>))
    /\ calls' = calls \o <<"print", "get_current_weather">>
    /\ pc' = "l96"
    /\ UNCHANGED <<response, message, idx, tool_call, function_name, function_args,
                   available_tools, sent, outcome, weatherVars>>

\* Line 101 with the header of line 95 inside the loop body.
Line101_header_in_loop ==
    /\ pc = "l101"
    /\ print(Line("Arguments: ", <<Format(function_args)>>))
    /\ pc' = "l95"
    /\ UNCHANGED <<response, message, idx, tool_call, function_name, function_args,
                   available_tools, sent, outcome, weatherVars>>

\* Line 101: print(f"Arguments: {function_args}"), the last statement of the
\* loop body; control returns to the for statement.
Line101 ==
    /\ pc = "l101"
    /\ print(Line("Arguments: ", <<Format(function_args)>>))
    /\ pc' = "l96"
    /\ UNCHANGED <<response, message, idx, tool_call, function_name, function_args,
                   available_tools, sent, outcome, weatherVars>>

(***************************************************************************)
(* get_current_weather (lines 19-24).  Here a Python str is the sequence   *)
(* of its characters, so that lower() and the f-string's concatenation are *)
(* computed character by character.                                        *)
(***************************************************************************)
UpperLetters == <<"A","B","C","D","E","F","G","H","I","J","K","L","M",
                  "N","O","P","Q","R","S","T","U","V","W","X","Y","Z">>
LowerLetters == <<"a","b","c","d","e","f","g","h","i","j","k","l","m",
                  "n","o","p","q","r","s","t","u","v","w","x","y","z">>

LowerChar(c) ==
    IF \E i \in 1..Len(UpperLetters) : UpperLetters[i] = c
    THEN LowerLetters[CHOOSE i \in 1..Len(UpperLetters) : UpperLetters[i] = c]
    ELSE c

UpperChar(c) ==
    IF \E i \in 1..Len(LowerLetters) : LowerLetters[i] = c
    THEN UpperLetters[CHOOSE i \in 1..Len(LowerLetters) : LowerLetters[i] = c]
    ELSE c

\* str.lower()
lower(s) == [i \in 1..Len(s) |-> LowerChar(s[i])]

\* The decimal text an f-string field produces for a non-negative int.
DecimalDigits == <<"0","1","2","3","4","5","6","7","8","9">>
RECURSIVE FormatInt(_)
FormatInt(n) ==
    IF n < 10 THEN <<DecimalDigits[n + 1]>>
    ELSE FormatInt(n \div 10) \o <<DecimalDigits[(n % 10) + 1]>>

celsius == <<"c","e","l","s","i","u","s">>
fahrenheit == <<"f","a","h","r","e","n","h","e","i","t">>

temperature == 25
condition == <<"s","u","n","n","y">>

\* Line 23 without the call of lower().
unit_symbol_case_sensitive(u) ==
    IF u = celsius THEN <<"°","C">> ELSE <<"°","F">>

\* Line 23: unit_symbol = "°C" if unit.lower() == "celsius" else "°F"
unit_symbol(u) ==
    IF lower(u) = celsius THEN <<"°","C">> ELSE <<"°","F">>

\* Line 24: f"It is {temperature}{unit_symbol} and {condition} in {city}."
get_current_weather(c, u) ==
    <<"I","t"," ","i","s"," ">> \o FormatInt(temperature) \o unit_symbol(u)
        \o <<" ","a","n","d"," ">> \o condition \o <<" ","i","n"," ">> \o c \o <<".">>

\* Line 19 with another default.
unit_default_fahrenheit == fahrenheit

\* Line 19: the default of the parameter `unit`.
unit_default == celsius

\* The inputs: cities and units.
CityAlphabet == {"a", "Z", " ", "."}
Cities ==
    SeqsUpTo(CityAlphabet, MaxCityLen)
    \cup { <<"T","o","k","y","o">>, <<"B","e","r","l","i","n">>, <<"P","a","r","i","s">>,
           <<"S","a","n"," ","F","r","a","n","c","i","s","c","o">> }

RECURSIVE CaseVariants(_)
CaseVariants(w) ==
    IF w = <<>> THEN {<<>>}
    ELSE {<<c>> \o t : c \in {Head(w), UpperChar(Head(w))}, t \in CaseVariants(Tail(w))}

\* Every unit whose lower-cased form is celsius, resp. fahrenheit.
CelsiusSpellings == CaseVariants(celsius)
FahrenheitSpellings == CaseVariants(fahrenheit)

Units ==
    CelsiusSpellings \cup FahrenheitSpellings
    \cup { <<>>, <<"k","e","l","v","i","n">>, <<"c","e","l","s","i","u">>,
           <<"c","e","l","s","i","u","s"," ">>, <<"C">> }

\* get_current_weather(city, unit)
CallWithUnit ==
    /\ result = Unbound
    /\ unit # Unbound
    /\ result' = Str(get_current_weather(city, unit.s))
    /\ UNCHANGED <<city, unit, scriptVars>>

\* get_current_weather(city): the parameter takes its default.
CallWithoutUnit ==
    /\ result = Unbound
    /\ unit = Unbound
    /\ result' = Str(get_current_weather(city, unit_default))
    /\ UNCHANGED <<city, unit, scriptVars>>

\* The state after lines 1-68: the client and the constants exist, nothing
\* has been requested or printed.
ScriptInit ==
    /\ pc = "l72"
    /\ response = Unbound
    /\ message = Unbound
    /\ idx = 0
    /\ tool_call = Unbound
    /\ function_name = Unbound
    /\ function_args = Unbound
    /\ available_tools = available_tools_value
    /\ sent = <<>>
    /\ outcome = "none"
    /\ out = <<>>
    /\ calls = <<>>

\* The script never calls get_current_weather: its arguments stay unbound.
Init ==
    /\ ScriptInit
    /\ city = <<>>
    /\ unit = Unbound
    /\ result = Unbound

Next ==
    \/ Request
    \/ CreateReturns
    \/ CreateRaises
    \/ Line83
    \/ Line84
    \/ Line87
    \/ Line88
    \/ Line89
    \/ Line90
    \/ Line91
    \/ Line94
    \/ Line95
    \/ Line96
    \/ Line97
    \/ Line98
    \/ Line100
    \/ Line101

Spec == Init /\ [][Next]_vars

\* The function on its own: one call, with the arguments drawn from the
\* bounded sets; an unbound unit is a call that omits the argument.
InitWeather ==
    /\ ScriptInit
    /\ city \in Cities
    /\ unit \in {Str(u) : u \in Units} \cup {Unbound}
    /\ result = Unbound

NextWeather ==
    \/ CallWithUnit
    \/ CallWithoutUnit

SpecWeather == InitWeather /\ [][NextWeather]_vars

(***************************************************************************)
(* Vocabulary of the properties.                                           *)
(***************************************************************************)
Returned == outcome = "returned"
Terminal == pc \in {"done", "fault"}

IsPrefix(p, q) == Len(p) <= Len(q) /\ \A i \in 1..Len(p) : p[i] = q[i]
Labels(q) == [i \in 1..Len(q) |-> q[i].label]
Count(q, label) == Cardinality({i \in 1..Len(q) : q[i].label = label})

\* The shape of the returned response.
FirstChoicePresent ==
    /\ response.kind = "object"
    /\ "choices" \in DOMAIN response.attrs
    /\ response.attrs.choices.kind = "list"
    /\ Len(response.attrs.choices.items) > 0
ReturnedMessage == response.attrs.choices.items[1].attrs.message
MessagePresent == FirstChoicePresent /\ ReturnedMessage.kind = "object"
ToolCallsAttrPresent == MessagePresent /\ "tool_calls" \in DOMAIN ReturnedMessage.attrs
ReturnedToolCalls ==
    IF ToolCallsAttrPresent /\ ReturnedMessage.attrs.tool_calls.kind = "list"
    THEN ReturnedMessage.attrs.tool_calls.items ELSE <<>>
ToolCallsEmptyOrNone == ToolCallsAttrPresent /\ ReturnedToolCalls = <<>>
UsagePresent == response.attrs.usage.kind = "object"
EntryHasFunction(e) == "function" \in DOMAIN e.attrs /\ e.attrs.function.kind = "object"
AllEntriesHaveFunction ==
    \A i \in 1..Len(ReturnedToolCalls) : EntryHasFunction(ReturnedToolCalls[i])
WellFormed == ToolCallsAttrPresent /\ UsagePresent /\ AllEntriesHaveFunction

\* The lines the script is to write for the returned response.
TextOf(v) == IF v.kind = "str" THEN [text |-> v.s] ELSE [text |-> "None"]
DumpLines ==
    << Line("=== Initial Response ===", <<>>), Line("pprint", <<[repr |-> response]>>) >>
ContentLines ==
    << Line("\n=== Message Content ===", <<>>),
       Line("Content: ", <<TextOf(ReturnedMessage.attrs.content)>>) >>
ToolCallsLine ==
    Line("Tool calls: ",
         << IF ReturnedMessage.attrs.tool_calls.kind = "list"
            THEN [repr |-> ReturnedMessage.attrs.tool_calls]
            ELSE [text |-> "None"] >>)
UsageLine ==
    Line("Prompt Tokens: , Completion Tokens: , Total Tokens: ",
         << [text |-> ToString(response.attrs.usage.attrs.prompt_tokens.n)],
            [text |-> ToString(response.attrs.usage.attrs.completion_tokens.n)],
            [text |-> ToString(response.attrs.usage.attrs.total_tokens.n)] >>)
ExecutingHeader == Line("\n=== Executing Tool Call ===", <<>>)
PairLines(e) ==
    << Line("Function: ", <<[text |-> e.attrs.function.attrs.name.s]>>),
       Line("Arguments: ", <<[text |-> e.attrs.function.attrs.arguments.s]>>) >>
RECURSIVE ToolLines(_)
ToolLines(entries) ==
    IF entries = <<>> THEN <<>> ELSE PairLines(Head(entries)) \o ToolLines(Tail(entries))
\* The entries before the first one that carries no function.
RECURSIVE EntriesBeforeFault(_)
EntriesBeforeFault(entries) ==
    IF entries = <<>> \/ ~EntryHasFunction(Head(entries)) THEN <<>>
    ELSE <<Head(entries)>> \o EntriesBeforeFault(Tail(entries))

\* What follows the usage line in the output.
AfterUsage == SubSeq(out, 7, Len(out))
NoToolOutput ==
    /\ Count(out, "\n=== Executing Tool Call ===") = 0
    /\ Count(out, "Function: ") = 0
    /\ Count(out, "Arguments: ") = 0

\* Characters of the sentences the specification quotes.
Sentence(letter, c) ==
    <<"I","t"," ","i","s"," ","2","5","°",letter," ","a","n","d"," ",
      "s","u","n","n","y"," ","i","n"," ">> \o c \o <<".">>
Tokyo == <<"T","o","k","y","o">>
Berlin == <<"B","e","r","l","i","n">>
Paris == <<"P","a","r","i","s">>

(***************************************************************************)
(* C1.  For every city and every unit whose lower-cased form is celsius or *)
(* fahrenheit, get_current_weather(city, unit) returns exactly             *)
(* "It is 25<sym> and sunny in <city>." with <sym> = °C when the unit is   *)
(* celsius in any letter case and °F otherwise; the city is unchanged.     *)
(***************************************************************************)
C1_WeatherSentence ==
    (result # Unbound /\ unit # Unbound) =>
        /\ unit.s \in CelsiusSpellings => result = Str(Sentence("C", city))
        /\ unit.s \in FahrenheitSpellings => result = Str(Sentence("F", city))

C1_Witness ==
    /\ city = Berlin
    /\ unit = Str(<<"C","E","L","S","I","U","S">>)
    /\ result = Str(<<"I","t"," ","i","s"," ","2","5","°","C"," ","a","n","d"," ",
                      "s","u","n","n","y"," ","i","n"," ","B","e","r","l","i","n",".">>)

(***************************************************************************)
(* C2.  When the unit argument is absent the function defaults to celsius: *)
(* get_current_weather(city) returns what get_current_weather(city,        *)
(* "celsius") returns, namely "It is 25°C and sunny in <city>.".           *)
(***************************************************************************)
C2_DefaultCelsius ==
    (result # Unbound /\ unit = Unbound) =>
        /\ result = Str(Sentence("C", city))
        /\ result = Str(get_current_weather(city, celsius))

C2_Witness ==
    /\ city = Paris
    /\ unit = Unbound
    /\ result = Str(<<"I","t"," ","i","s"," ","2","5","°","C"," ","a","n","d"," ",
                      "s","u","n","n","y"," ","i","n"," ","P","a","r","i","s",".">>)

(***************************************************************************)
(* C3.  Whatever the remote service does, the script issues exactly one    *)
(* chat-completion request: never more than one, and none after the first  *)
(* has returned or failed (no retry, no second turn).                      *)
(***************************************************************************)
C3_SingleRequest ==
    /\ Len(sent) <= 1
    /\ Count([i \in 1..Len(calls) |-> [label |-> calls[i]]],
             "client.chat.completions.create") = Len(sent)
    /\ outcome # "none" => Len(sent) = 1
    /\ Terminal => Len(sent) = 1

C3_Witness ==
    /\ pc = "fault"
    /\ outcome = "raised"
    /\ Len(sent) = 1

C5_AsStated ==
    (Returned /\ Terminal /\ ReturnedToolCalls # <<>>) =>
        /\ AllEntriesHaveFunction
        /\ AfterUsage = <<ExecutingHeader>> \o ToolLines(ReturnedToolCalls)

(***************************************************************************)
(* C5 amended.  If the tool-call list is non-empty and the response is     *)
(* otherwise well-formed (the usage object is present and every entry      *)
(* carries a function), the script prints, after the usage line and the    *)
(* header, one Function and one Arguments line per entry, in list order,   *)
(* with name and arguments exactly as returned: at every moment what has   *)
(* been printed is a prefix of that sequence, and the run ends normally    *)
(* with all of it printed.                                                 *)
(***************************************************************************)
C5_ToolCallsPrinted ==
    (Returned /\ ReturnedToolCalls # <<>> /\ WellFormed) =>
        /\ IsPrefix(AfterUsage, <<ExecutingHeader>> \o ToolLines(ReturnedToolCalls))
        /\ Terminal =>
              /\ pc = "done"
              /\ AfterUsage = <<ExecutingHeader>> \o ToolLines(ReturnedToolCalls)
              /\ Count(out, "Function: ") = Len(ReturnedToolCalls)
              /\ Count(out, "Arguments: ") = Len(ReturnedToolCalls)

C5_Witness ==
    /\ pc = "done"
    /\ Len(ReturnedToolCalls) = 2
    /\ ReturnedToolCalls[1] # ReturnedToolCalls[2]
    /\ out[8] = Line("Function: ", <<[text |-> "get_time"]>>)
    /\ out[9] = Line("Arguments: ", <<[text |-> "{\"city\":"]>>)
    /\ out[10] = Line("Function: ", <<[text |-> "get_current_weather"]>>)
    /\ Len(out) = 11

(***************************************************************************)
(* C6 as stated.  If the tool-call list is empty or None, no tool-call     *)
(* line is printed, the content has been printed and the program ends      *)
(* normally without a fault.                                               *)
(***************************************************************************)
C6_AsStated ==
    (Returned /\ ToolCallsEmptyOrNone) =>
        /\ NoToolOutput
        /\ Terminal =>
              /\ pc = "done"
              /\ out = DumpLines \o ContentLines \o <<ToolCallsLine, UsageLine>>

(***************************************************************************)
(* C6 amended.  If the tool-call list is empty or None, the header         *)
(* "=== Executing Tool Call ===" and the Function/Arguments lines are      *)
(* never printed; if moreover the usage object is present, the program     *)
(* ends normally, having printed the content, tool-calls and usage lines   *)
(* and nothing after them.  (Without the usage object the run faults at    *)
(* the usage line, after the content has been printed.)                    *)
(***************************************************************************)
C6_NoToolCalls ==
    (Returned /\ ToolCallsEmptyOrNone) =>
        /\ NoToolOutput
        /\ pc \notin {"l95", "l96", "l97", "l98", "l100", "l101"}
        /\ Terminal =>
              /\ IsPrefix(DumpLines \o ContentLines \o <<ToolCallsLine>>, out)
              /\ UsagePresent =>
                    /\ pc = "done"
                    /\ out = DumpLines \o ContentLines \o <<ToolCallsLine, UsageLine>>

C6_Witness ==
    /\ pc = "done"
    /\ ToolCallsAttrPresent
    /\ ReturnedMessage.attrs.tool_calls = List(<<>>)
    /\ out[4] = Line("Content: ", <<[text |-> "It is sunny in San Francisco."]>>)
    /\ Len(out) = 6

(***************************************************************************)
(* C7.  If the network call fails, the fault propagates unhandled: the     *)
(* program is in the faulted terminal state having printed nothing, the    *)
(* response inspection never starts, and the call is not retried.          *)
(***************************************************************************)
C7_CallFailureIsFatal ==
    outcome = "raised" =>
        /\ pc = "fault"
        /\ out = <<>>
        /\ response = Unbound /\ message = Unbound
        /\ calls = <<"client.chat.completions.create">>
        /\ Len(sent) = 1
        /\ ~ENABLED Next

C7_Witness ==
    /\ outcome = "raised"
    /\ pc = "fault"
    /\ sent = <<RequestArgs>>

(***************************************************************************)
(* C8.  If the returned response has an unexpected shape (no first choice, *)
(* a message without tool_calls, no usage object, a tool-call entry        *)
(* without a function), the access of that field faults and the run stops  *)
(* there: nothing that comes after the faulting access is printed (with    *)
(* the usage object absent, no tool-call line at all), and the fault is    *)
(* never caught or retried.                                                *)
(***************************************************************************)
OutputBeforeFault ==
    CASE ~FirstChoicePresent ->
            DumpLines
      [] FirstChoicePresent /\ ~MessagePresent ->
            DumpLines \o <<Line("\n=== Message Content ===", <<>>)>>
      [] MessagePresent /\ ~ToolCallsAttrPresent ->
            DumpLines \o ContentLines
      [] ToolCallsAttrPresent /\ ~UsagePresent ->
            DumpLines \o ContentLines \o <<ToolCallsLine>>
      [] ToolCallsAttrPresent /\ UsagePresent ->
            DumpLines \o ContentLines \o <<ToolCallsLine, UsageLine, ExecutingHeader>>
                \o ToolLines(EntriesBeforeFault(ReturnedToolCalls))

C8_MalformedResponseIsFatal ==
    (Returned /\ ~WellFormed) =>
        /\ IsPrefix(out, OutputBeforeFault)
        /\ pc # "done"
        /\ pc = "fault" => (out = OutputBeforeFault /\ Len(sent) = 1 /\ ~ENABLED Next)
        /\ (ToolCallsAttrPresent /\ ~UsagePresent) => NoToolOutput

C8_Witness ==
    /\ pc = "fault"
    /\ Returned
    /\ ToolCallsAttrPresent
    /\ ~UsagePresent
    /\ Len(ReturnedToolCalls) > 0
    /\ Len(out) = 5

(***************************************************************************)
(* C9.  With a well-formed response the output is, in this order and each  *)
(* once: the raw dump, the content line, the tool-calls line, the line     *)
(* with the three usage counters as returned; every Function/Arguments     *)
(* line comes after the usage line and after a single "=== Executing Tool  *)
(* Call ===" header; nothing is printed before the call has returned.      *)
(***************************************************************************)
FullOutput ==
    DumpLines \o ContentLines \o <<ToolCallsLine, UsageLine>>
        \o (IF ReturnedToolCalls = <<>> THEN <<>>
            ELSE <<ExecutingHeader>> \o ToolLines(ReturnedToolCalls))

C9_OutputOrder ==
    /\ out # <<>> => Returned
    /\ (Returned /\ WellFormed) =>
          /\ IsPrefix(out, FullOutput)
          /\ Count(out, "\n=== Executing Tool Call ===") <= 1
          /\ Terminal => (pc = "done" /\ out = FullOutput)

C9_Witness ==
    /\ pc = "done"
    /\ WellFormed
    /\ Len(ReturnedToolCalls) = 2
    /\ Labels(out) = << "=== Initial Response ===", "pprint", "\n=== Message Content ===",
                        "Content: ", "Tool calls: ",
                        "Prompt Tokens: , Completion Tokens: , Total Tokens: ",
                        "\n=== Executing Tool Call ===",
                        "Function: ", "Arguments: ", "Function: ", "Arguments: " >>
    /\ out[6].fields = <<[text |-> "180"], [text |-> "21"], [text |-> "201"]>>

(***************************************************************************)
(* C10.  The tool schema is immutable, well-formed configuration: in every *)
(* state (before the request, while waiting, during the inspection, after  *)
(* a fault) it has exactly one entry, of type function, named              *)
(* get_current_weather, with required = [city] and the unit enum           *)
(* [celsius, fahrenheit] defaulting to celsius; and the request carries    *)
(* this very sequence.                                                     *)
(***************************************************************************)
SchemaWellFormed(tools) ==
    /\ Len(tools) = 1
    /\ tools[1].type = "function"
    /\ tools[1].function.name = "get_current_weather"
    /\ tools[1].function.parameters.type = "object"
    /\ DOMAIN tools[1].function.parameters.properties = {"city", "unit"}
    /\ tools[1].function.parameters.properties.city.type = "string"
    /\ tools[1].function.parameters.properties.unit.type = "string"
    /\ tools[1].function.parameters.properties.unit.enum = <<"celsius", "fahrenheit">>
    /\ tools[1].function.parameters.properties.unit.default = "celsius"
    /\ tools[1].function.parameters.required = <<"city">>

C10_SchemaImmutable ==
    /\ SchemaWellFormed(available_tools)
    /\ \A i \in 1..Len(sent) :
          /\ sent[i].tools = available_tools
          /\ SchemaWellFormed(sent[i].tools)
          /\ sent[i].tool_choice = "auto"
    /\ pc # "l72" => Len(sent) = 1

C10_Witness ==
    /\ pc = "fault"
    /\ Returned
    /\ Len(out) > 6
    /\ sent[1].tools = available_tools
    /\ available_tools[1].function.parameters.required = <<"city">>

====
